---- MODULE Spec2Model ----
(***************************************************************************)
(* Model of cleaned_data.py: the script that loads the sheet               *)
(* "SocialMedia (1)" of Tweet.xlsx, runs clean_twitter_data on it and      *)
(* writes the returned DataFrame to a CSV file.                             *)
(*                                                                         *)
(* A DataFrame is a record [columns, index, data]: the column labels in    *)
(* order, the row labels in order, and one row (a function from column     *)
(* label to cell) per row label.  Every statement of clean_twitter_data    *)
(* is one action; pc is the statement the script is about to execute.      *)
(***************************************************************************)
EXTENDS Integers, Sequences, FiniteSets, TLC

VARIABLES pc, sheet, df, time_col, tweet_col, final_df, csv, stdout, exit_status

vars == <<pc, sheet, df, time_col, tweet_col, final_df, csv, stdout, exit_status>>

(***************************************************************************)
(* Cells.  Every cell has the same shape so that any two can be compared:  *)
(*   k = "nan"   a missing value (NaN / None / NaT)                        *)
(*   k = "str"   a string, s its characters                                *)
(*   k = "int"   a number n                                                *)
(*   k = "ts"    a tz-aware Timestamp: n the instant in minutes since      *)
(*               1970-01-01T00:00Z, tz the UTC offset of its zone, minutes *)
(*   k = "date"  a datetime.date: n the days since 1970-01-01              *)
(*   k = "label" one of the script's own string constants, l               *)
(***************************************************************************)
NaN == [k |-> "nan", s |-> <<>>, n |-> 0, tz |-> 0, l |-> ""]

Str(chars) == [k |-> "str", s |-> chars, n |-> 0, tz |-> 0, l |-> ""]

Num(i) == [k |-> "int", s |-> <<>>, n |-> i, tz |-> 0, l |-> ""]

Timestamp(instant, offset) == [k |-> "ts", s |-> <<>>, n |-> instant, tz |-> offset, l |-> ""]

Date(days) == [k |-> "date", s |-> <<>>, n |-> days, tz |-> 0, l |-> ""]

NaT == NaN

notna(x) == x.k # "nan"

(***************************************************************************)
(* Calendar arithmetic of the proleptic Gregorian calendar, as done by the *)
(* Timestamp type: a Timestamp stores an instant, and its fields are       *)
(* computed from the day number of its wall clock.                         *)
(***************************************************************************)
IsLeap(y) == (y % 4 = 0 /\ y % 100 # 0) \/ y % 400 = 0

DaysInMonth(y, m) ==
    IF m = 2 THEN (IF IsLeap(y) THEN 29 ELSE 28)
    ELSE IF m \in {4, 6, 9, 11} THEN 30 ELSE 31

DaysFromCivil(y, m, d) ==
    LET yy  == IF m <= 2 THEN y - 1 ELSE y
        era == yy \div 400
        yoe == yy - era * 400
        mp  == IF m > 2 THEN m - 3 ELSE m + 9
        doy == (153 * mp + 2) \div 5 + d - 1
        doe == yoe * 365 + yoe \div 4 - yoe \div 100 + doy
    IN  era * 146097 + doe - 719468

CivilFromDays(z) ==
    LET zz  == z + 719468
        era == zz \div 146097
        doe == zz - era * 146097
        yoe == (doe - doe \div 1460 + doe \div 36524 - doe \div 146096) \div 365
        doy == doe - (365 * yoe + yoe \div 4 - yoe \div 100)
        mp  == (5 * doy + 2) \div 153
        d   == doy - (153 * mp + 2) \div 5 + 1
        m   == IF mp < 10 THEN mp + 3 ELSE mp - 9
        y   == yoe + era * 400 + (IF m <= 2 THEN 1 ELSE 0)
    IN  [year |-> y, month |-> m, day |-> d]

MinutesPerDay == 24 * 60

\* The wall clock of a Timestamp, in minutes since 1970-01-01T00:00 of its zone.
Wall(t) == t.n + t.tz

dt_date(t) == Date(Wall(t) \div MinutesPerDay)

dt_hour(t) == (Wall(t) % MinutesPerDay) \div 60

dt_minute(t) == Wall(t) % 60

dt_day(t) == CivilFromDays(Wall(t) \div MinutesPerDay).day

DayNames == <<"Monday", "Tuesday", "Wednesday", "Thursday", "Friday", "Saturday", "Sunday">>

\* 1970-01-01 was a Thursday.
dt_day_name(t) == DayNames[((Wall(t) \div MinutesPerDay + 3) % 7) + 1]

(***************************************************************************)
(* Strings are sequences of one-character strings.                         *)
(***************************************************************************)
Digits == <<"0", "1", "2", "3", "4", "5", "6", "7", "8", "9">>

IsDigit(c) == \E i \in 1..10 : Digits[i] = c

DigitVal(c) == (CHOOSE i \in 1..10 : Digits[i] = c) - 1

IsSpace(c) == c = " "

RECURSIVE DigitRun(_, _)
\* The number of digits of s starting at position i.
DigitRun(s, i) ==
    IF i <= Len(s) /\ IsDigit(s[i]) THEN 1 + DigitRun(s, i + 1) ELSE 0

RECURSIVE SpaceRun(_, _)
\* The number of whitespace characters of s starting at position i.
SpaceRun(s, i) ==
    IF i <= Len(s) /\ IsSpace(s[i]) THEN 1 + SpaceRun(s, i + 1) ELSE 0

RECURSIVE ToInt(_, _, _)
\* The value of the n digits of s starting at position i.
ToInt(s, i, n) ==
    IF n = 0 THEN 0 ELSE ToInt(s, i, n - 1) * 10 + DigitVal(s[i + n - 1])

Lit(s, i, c) == i <= Len(s) /\ s[i] = c

(***************************************************************************)
(* pd.to_datetime(..., format='%Y-%m-%d %H:%M %z', errors='coerce') on one *)
(* value.  %Y is four digits; %m, %d, %H and %M are one or two digits      *)
(* within their range; a blank of the format matches a run of whitespace;  *)
(* %z is Z or a sign, two digits, an optional colon and two digits below   *)
(* 60; the whole value must match and the date must exist.  A value that   *)
(* does not match becomes NaT.  The result keeps the parsed UTC offset as  *)
(* its zone: it is not converted to UTC (utc=True is not passed).          *)
(***************************************************************************)
ParseZone(s, i) ==
    IF Lit(s, i, "Z") /\ Len(s) = i THEN [ok |-> TRUE, off |-> 0]
    ELSE IF ~(Lit(s, i, "+") \/ Lit(s, i, "-")) \/ DigitRun(s, i + 1) < 2
    THEN [ok |-> FALSE, off |-> 0]
    ELSE LET j  == IF Lit(s, i + 3, ":") THEN i + 4 ELSE i + 3
             hh == ToInt(s, i + 1, 2)
             mm == ToInt(s, j, 2)
             sg == IF s[i] = "-" THEN -1 ELSE 1
         IN  IF DigitRun(s, j) = 2 /\ Len(s) = j + 1 /\ mm < 60
             THEN [ok |-> TRUE, off |-> sg * (hh * 60 + mm)]
             ELSE [ok |-> FALSE, off |-> 0]

ParseTime(s) ==
    LET ny == DigitRun(s, 1)
        pm == 6
        nm == DigitRun(s, pm)
        pd == pm + nm + 1
        nd == DigitRun(s, pd)
        w1 == SpaceRun(s, pd + nd)
        ph == pd + nd + w1
        nh == DigitRun(s, ph)
        pi == ph + nh + 1
        ni == DigitRun(s, pi)
        w2 == SpaceRun(s, pi + ni)
        pz == pi + ni + w2
        y  == ToInt(s, 1, 4)
        m  == ToInt(s, pm, nm)
        d  == ToInt(s, pd, nd)
        h  == ToInt(s, ph, nh)
        mi == ToInt(s, pi, ni)
        z  == ParseZone(s, pz)
    IN  IF /\ ny = 4 /\ Lit(s, 5, "-")
           /\ nm \in {1, 2} /\ Lit(s, pm + nm, "-")
           /\ nd \in {1, 2} /\ w1 >= 1
           /\ nh \in {1, 2} /\ Lit(s, ph + nh, ":")
           /\ ni \in {1, 2} /\ w2 >= 1
           /\ m \in 1..12 /\ d \in 1..DaysInMonth(y, m)
           /\ h \in 0..23 /\ mi \in 0..59
           /\ z.ok
        THEN Timestamp((DaysFromCivil(y, m, d) * MinutesPerDay + h * 60 + mi) - z.off, z.off)
        ELSE NaT

to_datetime(x) == IF x.k = "str" THEN ParseTime(x.s) ELSE NaT

(***************************************************************************)
(* str(x), len(str(x)) and len(str(x).split()) of a cell.                  *)
(***************************************************************************)
RECURSIVE Decimal(_)
Decimal(i) ==
    IF i < 10 THEN <<Digits[i + 1]>> ELSE Append(Decimal(i \div 10), Digits[(i % 10) + 1])

str(x) ==
    IF x.k = "str" THEN x.s
    ELSE IF x.k = "int" THEN (IF x.n < 0 THEN <<"-">> \o Decimal(-x.n) ELSE Decimal(x.n))
    ELSE <<"n", "a", "n">>

RECURSIVE CountTokens(_, _)
\* The number of maximal runs of non-whitespace characters of s from position i on.
CountTokens(s, i) ==
    IF i > Len(s) THEN 0
    ELSE IF IsSpace(s[i]) THEN CountTokens(s, i + 1)
    ELSE (IF i = 1 \/ IsSpace(s[i - 1]) THEN 1 ELSE 0) + CountTokens(s, i + 1)

split_len(s) == CountTokens(s, 1)

(***************************************************************************)
(* DataFrame operations.                                                   *)
(***************************************************************************)
None == [kind |-> "None", columns |-> <<>>, index |-> <<>>, data |-> <<>>]

DataFrame(columns, index, data) ==
    [kind |-> "DataFrame", columns |-> columns, index |-> index, data |-> data]

Range(seq) == {seq[i] : i \in 1..Len(seq)}

\* col in df.columns
HasColumn(d, col) == col \in Range(d.columns)

\* df.rename(columns=mapping): every label that is a key of the mapping is
\* replaced by its value, in place; the cells stay with their column.
rename(d, old1, new1, old2, new2) ==
    LET to(c)   == IF c = old1 THEN new1 ELSE IF c = old2 THEN new2 ELSE c
        cols    == [i \in 1..Len(d.columns) |-> to(d.columns[i])]
        from(c) == CHOOSE o \in Range(d.columns) : to(o) = c
    IN  DataFrame(cols, d.index,
                  [i \in 1..Len(d.data) |-> [c \in Range(cols) |-> d.data[i][from(c)]]])

\* d[mask]: the rows of d, in order, whose entry of the boolean mask is TRUE.
Filter(d, mask) ==
    LET pos == SelectSeq([i \in 1..Len(d.data) |-> i], LAMBDA i : mask[i])
    IN  DataFrame(d.columns,
                  [j \in 1..Len(pos) |-> d.index[pos[j]]],
                  [j \in 1..Len(pos) |-> d.data[pos[j]]])

\* Faulty variant: only the first column of the subset is looked at.
dropna2_first_only(d, a, b) ==
    Filter(d, [i \in 1..Len(d.data) |-> notna(d.data[i][a])])

\* df.dropna(subset=[a, b])
dropna2(d, a, b) ==
    Filter(d, [i \in 1..Len(d.data) |-> notna(d.data[i][a]) /\ notna(d.data[i][b])])

\* df.dropna(subset=[a])
dropna1(d, a) ==
    Filter(d, [i \in 1..Len(d.data) |-> notna(d.data[i][a])])

\* df[col] = values, one value per row: an existing column is overwritten in
\* place, a new one is appended as the last column.
Assign(d, col, values) ==
    DataFrame(IF HasColumn(d, col) THEN d.columns ELSE Append(d.columns, col),
              d.index,
              [i \in 1..Len(d.data) |->
                  [c \in DOMAIN d.data[i] \cup {col} |->
                      IF c = col THEN values[i] ELSE d.data[i][c]]])

\* series.apply(f) / df.apply(f, axis=1): the values of a per-row expression
\* are written [i \in Rows(d) |-> ...].
Rows(d) == 1..Len(d.data)

\* df.reindex(columns=labels): one column per entry of labels, a repeated label
\* giving a repeated column; a label df does not have gives a column of NaN.
reindex(d, labels) ==
    DataFrame(labels, d.index,
              [i \in 1..Len(d.data) |->
                  [c \in Range(labels) |->
                      IF c \in DOMAIN d.data[i] THEN d.data[i][c] ELSE NaN]])

\* row.get(label, 0)
get(row, label) == IF label \in DOMAIN row THEN row[label] ELSE Num(0)

\* x > 0 for a number or NaN (NaN compares False).
GreaterThanZero(x) == x.k = "int" /\ x.n > 0

(***************************************************************************)
(* The statements of clean_twitter_data as functions of the DataFrame.     *)
(***************************************************************************)
\* Faulty variant: the capitalized name of the time pair is forgotten.
TimeAliases_one == <<"time">>

TimeAliases == <<"time", "Time">>

\* Faulty variant: the second name of the text pair is forgotten.
TweetAliases_one == <<"Tweet">>

TweetAliases == <<"Tweet", "TweetText">>

NoColumn == ""

\* for col in aliases: if col in df.columns: found = col; break
FirstPresent(d, aliases) ==
    IF \E i \in 1..Len(aliases) : HasColumn(d, aliases[i])
    THEN aliases[CHOOSE i \in 1..Len(aliases) :
                    /\ HasColumn(d, aliases[i])
                    /\ \A j \in 1..(i - 1) : ~HasColumn(d, aliases[j])]
    ELSE NoColumn

\* if not time_col or not tweet_col
MissingRequired(tc, wc) == tc = NoColumn \/ wc = NoColumn

IstHours == 5

IstMinutes == 30

\* Faulty variant: the minutes of the offset are lost.
ist_offset_hours == IstHours * 60

\* ist_offset = timedelta(hours=5, minutes=30), in minutes
ist_offset == IstHours * 60 + IstMinutes

\* x + ist_offset: the instant moves, the zone stays.
AddOffset(x) == Timestamp(x.n + ist_offset, x.tz)

\* The parsed values carry more than one UTC offset: the column is then of
\* object dtype and has no .dt accessor.
MixedOffsets(d, col) ==
    \E i, j \in 1..Len(d.data) : d.data[i][col].tz # d.data[j][col].tz

word_count(x) == IF notna(x) THEN Num(split_len(str(x))) ELSE Num(0)

char_count(x) == IF notna(x) THEN Num(Len(str(x))) ELSE Num(0)

Label(name) == [k |-> "label", s |-> <<>>, n |-> 0, tz |-> 0, l |-> name]

\* Faulty variant: url clicks are looked at before media views.
categorize_tweet_links_first(row) ==
    IF GreaterThanZero(get(row, "url clicks")) THEN "Links"
    ELSE IF GreaterThanZero(get(row, "media views")) THEN "Media"
    ELSE IF GreaterThanZero(get(row, "hashtag clicks")) THEN "Hashtags"
    ELSE "Other"

categorize_tweet(row) ==
    IF GreaterThanZero(get(row, "media views")) THEN "Media"
    ELSE IF GreaterThanZero(get(row, "url clicks")) THEN "Links"
    ELSE IF GreaterThanZero(get(row, "hashtag clicks")) THEN "Hashtags"
    ELSE "Other"

DerivedColumns ==
    <<"time_utc", "time_ist", "date_ist", "hour_ist", "day_of_week", "day_of_month",
      "TweetWordCount", "TweetCharCount", "TweetCategory", "user_profile_id">>

\* final_columns = df.columns.tolist() + [...]
final_columns(d) == d.columns \o DerivedColumns

\* Line 63: df['time_utc'] = pd.to_datetime(df['time'], format=..., errors='coerce')
with_time_utc(d) ==
    Assign(d, "time_utc", [i \in Rows(d) |-> to_datetime(d.data[i]["time"])])

\* df['time_utc'].isnull().any()
AnyNaT(d) == \E i \in 1..Len(d.data) : ~notna(d.data[i]["time_utc"])

\* Line 72: df['time_ist'] = df['time_utc'].apply(lambda x: x + ist_offset)
with_time_ist(d) ==
    Assign(d, "time_ist", [i \in Rows(d) |-> AddOffset(d.data[i]["time_utc"])])

\* Line 75: df['date_ist'] = df['time_ist'].dt.date
with_date_ist(d) ==
    Assign(d, "date_ist", [i \in Rows(d) |-> dt_date(d.data[i]["time_ist"])])

\* Line 76: df['hour_ist'] = df['time_ist'].dt.hour
with_hour_ist(d) ==
    Assign(d, "hour_ist", [i \in Rows(d) |-> Num(dt_hour(d.data[i]["time_ist"]))])

\* Line 77: df['day_of_week'] = df['time_ist'].dt.day_name()
with_day_of_week(d) ==
    Assign(d, "day_of_week", [i \in Rows(d) |-> Label(dt_day_name(d.data[i]["time_ist"]))])

\* Line 79: df['day_of_month'] = df['time_ist'].dt.day
with_day_of_month(d) ==
    Assign(d, "day_of_month", [i \in Rows(d) |-> Num(dt_day(d.data[i]["time_ist"]))])

\* Line 84: df['TweetWordCount'] = df['Tweet'].apply(...)
with_TweetWordCount(d) ==
    Assign(d, "TweetWordCount", [i \in Rows(d) |-> word_count(d.data[i]["Tweet"])])

\* Line 87: df['TweetCharCount'] = df['Tweet'].apply(...)
with_TweetCharCount(d) ==
    Assign(d, "TweetCharCount", [i \in Rows(d) |-> char_count(d.data[i]["Tweet"])])

\* Line 101: df['TweetCategory'] = df.apply(categorize_tweet, axis=1)
with_TweetCategory(d) ==
    Assign(d, "TweetCategory", [i \in Rows(d) |-> Label(categorize_tweet(d.data[i]))])

\* Line 104: df['user_profile_id'] = df['id']
with_user_profile_id(d) ==
    Assign(d, "user_profile_id", [i \in Rows(d) |-> d.data[i]["id"]])

Raised(exception) == [kind |-> exception, columns |-> <<>>, index |-> <<>>, data |-> <<>>]

AttributeError == "AttributeError: Can only use .dt accessor with datetimelike values"

KeyError == "KeyError: 'id'"

\* Lines 33-116 as one function of the loaded table: the DataFrame returned,
\* None, or the exception that leaves the function.
clean_twitter_data(table) ==
    LET tc == FirstPresent(table, TimeAliases)
        wc == FirstPresent(table, TweetAliases)
        d1 == dropna2(rename(table, tc, "time", wc, "Tweet"), "time", "Tweet")
        d2 == with_time_utc(d1)
        d3 == with_time_ist(IF AnyNaT(d2) THEN dropna1(d2, "time_utc") ELSE d2)
        d4 == with_TweetCategory(with_TweetCharCount(with_TweetWordCount(
                  with_day_of_month(with_day_of_week(with_hour_ist(with_date_ist(d3)))))))
        d5 == with_user_profile_id(d4)
    IN  IF MissingRequired(tc, wc) THEN None
        ELSE IF MixedOffsets(d3, "time_ist") THEN Raised(AttributeError)
        ELSE IF ~HasColumn(d4, "id") THEN Raised(KeyError)
        ELSE reindex(d5, final_columns(d5))

(***************************************************************************)
(* The script.  sheet is what pd.read_excel finds at "Tweet.xlsx", sheet   *)
(* "SocialMedia (1)": a table, or the failure it raises.                   *)
(***************************************************************************)
Unset == [kind |-> "Unset", columns |-> <<>>, index |-> <<>>, data |-> <<>>]

NotFoundMessage == "Error: The file was not found. Please ensure the file name is correct."

UnreadableMessage == "An error occurred while reading the Excel file"

MissingColumnMessage == "Error: The Excel file is missing the required 'time' and/or 'Tweet' columns."

NaTWarning == "Warning: Some 'time' values could not be converted. Check the format."

SuccessMessage == "Successfully created and saved the cleaned data"

Say(msg) == stdout' = Append(stdout, msg)

\* An exception nothing catches: the traceback is printed and the interpreter
\* exits with status 1.
Raise(exception) ==
    /\ pc' = "exited"
    /\ exit_status' = <<1>>
    /\ Say(exception)
    /\ UNCHANGED <<sheet, df, time_col, tweet_col, final_df, csv>>

Goto(label) == pc' = label

\* Lines 17-21: df = pd.read_excel(file_path, sheet_name=sheet_name)
ReadExcel ==
    /\ pc = "read_excel"
    /\ sheet.kind = "DataFrame"
    /\ df' = sheet
    /\ Goto("find_time_col")
    /\ UNCHANGED <<sheet, time_col, tweet_col, final_df, csv, stdout, exit_status>>

\* Lines 22-24: except FileNotFoundError: print; return None
ReadExcelNotFound ==
    /\ pc = "read_excel"
    /\ sheet.kind = "FileNotFoundError"
    /\ Say(NotFoundMessage)
    /\ final_df' = None
    /\ Goto("returned")
    /\ UNCHANGED <<sheet, df, time_col, tweet_col, csv, exit_status>>

\* Lines 25-27: except Exception: print; return None
ReadExcelError ==
    /\ pc = "read_excel"
    /\ sheet.kind = "Exception"
    /\ Say(UnreadableMessage)
    /\ final_df' = None
    /\ Goto("returned")
    /\ UNCHANGED <<sheet, df, time_col, tweet_col, csv, exit_status>>

\* Lines 34-38
FindTimeCol ==
    /\ pc = "find_time_col"
    /\ time_col' = FirstPresent(df, TimeAliases)
    /\ Goto("find_tweet_col")
    /\ UNCHANGED <<sheet, df, tweet_col, final_df, csv, stdout, exit_status>>

\* Lines 41-45
FindTweetCol ==
    /\ pc = "find_tweet_col"
    /\ tweet_col' = FirstPresent(df, TweetAliases)
    /\ Goto("check_required")
    /\ UNCHANGED <<sheet, df, time_col, final_df, csv, stdout, exit_status>>

\* Lines 48-52: the required columns are not found: print; return None
MissingRequiredColumn ==
    /\ pc = "check_required"
    /\ MissingRequired(time_col, tweet_col)
    /\ Say(MissingColumnMessage)
    /\ final_df' = None
    /\ Goto("returned")
    /\ UNCHANGED <<sheet, df, time_col, tweet_col, csv, exit_status>>

\* Line 55: df.rename(columns={time_col: 'time', tweet_col: 'Tweet'}, inplace=True)
Rename ==
    /\ pc = "check_required"
    /\ ~MissingRequired(time_col, tweet_col)
    /\ df' = rename(df, time_col, "time", tweet_col, "Tweet")
    /\ Goto("dropna")
    /\ UNCHANGED <<sheet, time_col, tweet_col, final_df, csv, stdout, exit_status>>

\* Line 60: df.dropna(subset=['time', 'Tweet'], inplace=True)
DropNa ==
    /\ pc = "dropna"
    /\ df' = dropna2(df, "time", "Tweet")
    /\ Goto("to_datetime")
    /\ UNCHANGED <<sheet, time_col, tweet_col, final_df, csv, stdout, exit_status>>

\* Line 63: df['time_utc'] = pd.to_datetime(df['time'], format=..., errors='coerce')
ToDatetime ==
    /\ pc = "to_datetime"
    /\ df' = with_time_utc(df)
    /\ Goto("check_nat")
    /\ UNCHANGED <<sheet, time_col, tweet_col, final_df, csv, stdout, exit_status>>

\* Lines 66-68: if df['time_utc'].isnull().any(): print warning; dropna
DropNaT ==
    /\ pc = "check_nat"
    /\ IF AnyNaT(df)
       THEN /\ Say(NaTWarning)
            /\ df' = dropna1(df, "time_utc")
       ELSE UNCHANGED <<df, stdout>>
    /\ Goto("time_ist")
    /\ UNCHANGED <<sheet, time_col, tweet_col, final_df, csv, exit_status>>

\* Lines 71-72: df['time_ist'] = df['time_utc'].apply(lambda x: x + ist_offset)
TimeIst ==
    /\ pc = "time_ist"
    /\ df' = with_time_ist(df)
    /\ Goto("date_ist")
    /\ UNCHANGED <<sheet, time_col, tweet_col, final_df, csv, stdout, exit_status>>

\* Line 75: df['date_ist'] = df['time_ist'].dt.date
DateIst ==
    /\ pc = "date_ist"
    /\ ~MixedOffsets(df, "time_ist")
    /\ df' = with_date_ist(df)
    /\ Goto("hour_ist")
    /\ UNCHANGED <<sheet, time_col, tweet_col, final_df, csv, stdout, exit_status>>

\* Line 75 when the time values carry different UTC offsets: time_utc and
\* time_ist are then object columns, and .dt raises AttributeError (pandas
\* versions that refuse mixed offsets raise at line 63 instead).
DateIstRaises ==
    /\ pc = "date_ist"
    /\ MixedOffsets(df, "time_ist")
    /\ Raise(AttributeError)

\* Line 76: df['hour_ist'] = df['time_ist'].dt.hour
HourIst ==
    /\ pc = "hour_ist"
    /\ df' = with_hour_ist(df)
    /\ Goto("day_of_week")
    /\ UNCHANGED <<sheet, time_col, tweet_col, final_df, csv, stdout, exit_status>>

\* Line 77: df['day_of_week'] = df['time_ist'].dt.day_name()
DayOfWeek ==
    /\ pc = "day_of_week"
    /\ df' = with_day_of_week(df)
    /\ Goto("day_of_month")
    /\ UNCHANGED <<sheet, time_col, tweet_col, final_df, csv, stdout, exit_status>>

\* Line 79: df['day_of_month'] = df['time_ist'].dt.day
DayOfMonth ==
    /\ pc = "day_of_month"
    /\ df' = with_day_of_month(df)
    /\ Goto("word_count")
    /\ UNCHANGED <<sheet, time_col, tweet_col, final_df, csv, stdout, exit_status>>

\* Line 84
TweetWordCount ==
    /\ pc = "word_count"
    /\ df' = with_TweetWordCount(df)
    /\ Goto("char_count")
    /\ UNCHANGED <<sheet, time_col, tweet_col, final_df, csv, stdout, exit_status>>

\* Line 87
TweetCharCount ==
    /\ pc = "char_count"
    /\ df' = with_TweetCharCount(df)
    /\ Goto("category")
    /\ UNCHANGED <<sheet, time_col, tweet_col, final_df, csv, stdout, exit_status>>

\* Line 101: df['TweetCategory'] = df.apply(categorize_tweet, axis=1)
TweetCategory ==
    /\ pc = "category"
    /\ df' = with_TweetCategory(df)
    /\ Goto("user_profile_id")
    /\ UNCHANGED <<sheet, time_col, tweet_col, final_df, csv, stdout, exit_status>>

\* Line 104: df['user_profile_id'] = df['id']
UserProfileId ==
    /\ pc = "user_profile_id"
    /\ HasColumn(df, "id")
    /\ df' = with_user_profile_id(df)
    /\ Goto("reindex")
    /\ UNCHANGED <<sheet, time_col, tweet_col, final_df, csv, stdout, exit_status>>

\* Line 104 without an id column: df['id'] raises KeyError.
UserProfileIdRaises ==
    /\ pc = "user_profile_id"
    /\ ~HasColumn(df, "id")
    /\ Raise(KeyError)

\* Lines 108-116: final_df = df.reindex(columns=final_columns); return final_df
Reindex ==
    /\ pc = "reindex"
    /\ final_df' = reindex(df, final_columns(df))
    /\ Goto("returned")
    /\ UNCHANGED <<sheet, df, time_col, tweet_col, csv, stdout, exit_status>>

\* Faulty variant: the file is written without looking at what was returned.
ToCsv_unguarded ==
    /\ pc = "returned"
    /\ csv' = final_df
    /\ Say(SuccessMessage)
    /\ exit_status' = <<0>>
    /\ Goto("exited")
    /\ UNCHANGED <<sheet, df, time_col, tweet_col, final_df>>

\* Lines 126-129: if final_df is not None: final_df.to_csv(...); print.  The
\* script then ends: exit status 0.
ToCsv ==
    /\ pc = "returned"
    /\ final_df # None
    /\ csv' = final_df
    /\ Say(SuccessMessage)
    /\ exit_status' = <<0>>
    /\ Goto("exited")
    /\ UNCHANGED <<sheet, df, time_col, tweet_col, final_df>>

\* Line 126 with final_df None: nothing is written; the script ends, exit status 0.
SkipCsv ==
    /\ pc = "returned"
    /\ final_df = None
    /\ exit_status' = <<0>>
    /\ Goto("exited")
    /\ UNCHANGED <<sheet, df, time_col, tweet_col, final_df, csv, stdout>>

Next ==
    \/ ReadExcel \/ ReadExcelNotFound \/ ReadExcelError
    \/ FindTimeCol \/ FindTweetCol \/ MissingRequiredColumn \/ Rename
    \/ DropNa \/ ToDatetime \/ DropNaT \/ TimeIst
    \/ DateIst \/ DateIstRaises \/ HourIst \/ DayOfWeek \/ DayOfMonth
    \/ TweetWordCount \/ TweetCharCount \/ TweetCategory
    \/ UserProfileId \/ UserProfileIdRaises \/ Reindex
    \/ ToCsv \/ SkipCsv

(***************************************************************************)
(* The sheets the script is run on.                                        *)
(***************************************************************************)
MaxRows == 2

Pad2(i) == <<Digits[(i \div 10) + 1], Digits[(i % 10) + 1]>>

Pad4(i) == Pad2(i \div 100) \o Pad2(i % 100)

FmtZone(off) ==
    LET a == IF off < 0 THEN -off ELSE off
    IN  <<IF off < 0 THEN "-" ELSE "+">> \o Pad2(a \div 60) \o Pad2(a % 60)

\* The text 'YYYY-MM-DD HH:MM +hhmm' of the given fields.
FmtTime(y, m, d, h, mi, off) ==
    Pad4(y) \o <<"-">> \o Pad2(m) \o <<"-">> \o Pad2(d) \o <<" ">>
            \o Pad2(h) \o <<":">> \o Pad2(mi) \o <<" ">> \o FmtZone(off)

\* The same without zero padding: '2024-6-1 9:5 +0000'.
FmtTimeUnpadded(y, m, d, h, mi, off) ==
    Pad4(y) \o <<"-">> \o Decimal(m) \o <<"-">> \o Decimal(d) \o <<" ">>
            \o Decimal(h) \o <<":">> \o Decimal(mi) \o <<" ">> \o FmtZone(off)

Years == {2023, 2024}

Months == {2, 6, 12}

Days == {1, 28, 29, 30, 31}

Hours == {10, 18, 23}

Minutes == {29, 30, 45}

Offsets == {0, 60, -330}

\* Values of a time cell that are no timestamp of the format.
BadTimes ==
    { Str(<<"n", "o", "w">>),
      Str(<<"2", "0", "2", "4", "/", "0", "6", "/", "0", "1">>),
      Str(FmtTime(2024, 6, 1, 10, 0, 0) \o <<":", "0", "0">>),
      Str(FmtTime(2024, 6, 1, 24, 0, 0)),
      Str(FmtTime(2024, 13, 1, 10, 0, 0)),
      Num(45444) }

T1 == Str(FmtTime(2024, 6, 1, 10, 0, 0))

T2 == Str(FmtTime(2024, 6, 1, 10, 0, 60))

T3 == Str(FmtTimeUnpadded(2024, 6, 1, 9, 5, 0))

Text1 == Str(<<"h", "i", " ", "t", "h", "e", "r", "e">>)

Text2 == Str(<<"a", " ", " ", "b", " ", " ", " ", "c">>)

Sample(t, w, mv, uc, hc) ==
    [time |-> t, Tweet |-> w, mv |-> mv, uc |-> uc, hc |-> hc]

\* The rows of the general sheets.
RowSamples ==
    { Sample(T1, Text1, Num(0), Num(0), Num(0)),
      Sample(T1, NaN, Num(5), Num(3), Num(0)),
      Sample(T2, Text2, Num(0), Num(3), Num(2)),
      Sample(T3, Text1, NaN, Num(0), Num(2)),
      Sample(NaN, Text1, Num(5), Num(0), Num(0)),
      Sample(NaN, NaN, Num(0), Num(0), Num(0)),
      Sample(Str(<<"n", "o", "w">>), Text2, NaN, NaN, NaN),
      Sample(Str(FmtTime(2024, 2, 30, 10, 0, 0)), Text1, Num(0), Num(0), Num(7)) }

\* The header rows of the general sheets.
Layouts ==
    { <<"id", "time", "Tweet", "media views", "url clicks", "hashtag clicks">>,
      <<"id", "Time", "TweetText", "media views", "url clicks", "hashtag clicks">>,
      <<"Tweet", "id", "Time", "url clicks">>,
      <<"time", "TweetText", "id">>,
      <<"Time", "time", "TweetText", "Tweet", "id">>,
      <<"foo", "bar">>,
      <<"id", "time", "media views">>,
      <<"TweetText", "id">>,
      <<"time", "Tweet", "media views">>,
      <<"time_utc", "id", "time", "Tweet", "user_profile_id", "TweetCategory">>,
      <<"hour_ist", "Time", "Tweet", "id", "foo">> }

\* The cell of row number i under header col, for the sample s.  When both
\* names of a pair are present, the second name holds other values.
CellOf(cols, col, s, i) ==
    CASE col = "time"           -> s.time
      [] col = "Time"           -> IF "time" \in Range(cols) THEN T2 ELSE s.time
      [] col = "Tweet"          -> s.Tweet
      [] col = "TweetText"      -> IF "Tweet" \in Range(cols) THEN Text2 ELSE s.Tweet
      [] col = "id"             -> Num(100 + i)
      [] col = "media views"    -> s.mv
      [] col = "url clicks"     -> s.uc
      [] col = "hashtag clicks" -> s.hc
      [] OTHER                  -> Str(<<"r", "a", "w">>)

Sheet(cols, samples) ==
    DataFrame(cols,
              [i \in 1..Len(samples) |-> i - 1],
              [i \in 1..Len(samples) |->
                  [c \in Range(cols) |-> CellOf(cols, c, samples[i], i)]])

GeneralSheets ==
    UNION { { Sheet(cols, samples) : samples \in [1..n -> RowSamples] } :
            <<cols, n>> \in Layouts \X (0..MaxRows) }

\* One-row sheets over a grid of timestamps, with days that do not exist.
TimeSheets ==
    { Sheet(<<"id", "time", "Tweet">>,
            <<Sample(Str(FmtTime(y, m, d, h, mi, off)), Text1, NaN, NaN, NaN)>>) :
      <<y, m, d, h, mi, off>> \in Years \X Months \X Days \X Hours \X Minutes \X Offsets }

\* One-row sheets whose time is no timestamp of the format.
BadTimeSheets ==
    { Sheet(<<"id", "time", "Tweet">>, <<Sample(b, Text1, NaN, NaN, NaN)>>) : b \in BadTimes }

SignalValues == {NaN, Num(0), Num(3), Num(5), Num(-2)}

SignalLayouts ==
    { SelectSeq(<<"id", "time", "Tweet", "media views", "url clicks", "hashtag clicks">>,
                LAMBDA c : c \notin absent) :
      absent \in SUBSET {"media views", "url clicks", "hashtag clicks"} }

\* One-row sheets over every combination of absent, missing, zero, positive
\* and negative signal cells.
SignalSheets ==
    { Sheet(cols, <<Sample(T1, Text1, mv, uc, hc)>>) :
      <<cols, mv, uc, hc>> \in SignalLayouts \X SignalValues \X SignalValues \X SignalValues }

LoadFailures ==
    { [kind |-> "FileNotFoundError", columns |-> <<>>, index |-> <<>>, data |-> <<>>],
      [kind |-> "Exception", columns |-> <<>>, index |-> <<>>, data |-> <<>>] }

Sheets == GeneralSheets \cup TimeSheets \cup BadTimeSheets \cup SignalSheets \cup LoadFailures

Init ==
    /\ pc = "read_excel"
    /\ sheet \in Sheets
    /\ df = Unset
    /\ time_col = NoColumn
    /\ tweet_col = NoColumn
    /\ final_df = Unset
    /\ csv = Unset
    /\ stdout = <<>>
    /\ exit_status = <<>>

Spec == Init /\ [][Next]_vars

(***************************************************************************)
(* Properties.                                                             *)
(***************************************************************************)
Loaded == sheet.kind = "DataFrame"

Returned == pc \in {"returned", "exited"} /\ final_df.kind = "DataFrame"

Printed(msg) == msg \in Range(stdout)

\* The statements before the check of line 48.
BeforeCheck == {"read_excel", "find_time_col", "find_tweet_col", "check_required"}

\* Neither name of one of the two pairs is a header of the sheet.
NoAlias(table) ==
    \/ {"time", "Time"} \cap Range(table.columns) = {}
    \/ {"Tweet", "TweetText"} \cap Range(table.columns) = {}

\* The header under which the sheet holds the canonical field.
RawName(table, canonical) ==
    CASE canonical = "time"  -> IF "time" \in Range(table.columns) THEN "time" ELSE "Time"
      [] canonical = "Tweet" -> IF "Tweet" \in Range(table.columns) THEN "Tweet" ELSE "TweetText"
      [] OTHER               -> canonical

\* The row of the sheet with row label i.
RawRow(i) == sheet.data[i + 1]

\* The statement-by-statement run returns what the function computes.
RunIsFunction ==
    pc = "returned" /\ Loaded => final_df = clean_twitter_data(sheet)

\* C1: the script prints the missing-column error and returns None exactly when
\* the sheet's headers lack both names of one pair, whatever its rows (also
\* none); no table is then returned and no file is written.
C1_MissingRequiredColumn ==
    /\ Printed(MissingColumnMessage) => Loaded /\ NoAlias(sheet)
    /\ Loaded /\ NoAlias(sheet) /\ pc \notin BeforeCheck =>
          /\ Printed(MissingColumnMessage)
          /\ final_df = None
          /\ csv = Unset
          /\ ~Printed(SuccessMessage)

\* C1 witness: a sheet with rows and a time header but no Tweet header ended
\* with the error and without a file.
C1_Witness ==
    /\ pc = "exited" /\ Loaded
    /\ "time" \in Range(sheet.columns) /\ NoAlias(sheet)
    /\ Len(sheet.data) = 2
    /\ Printed(MissingColumnMessage) /\ final_df = None /\ csv = Unset

\* C1 witness for the sheet without rows.
C1_WitnessNoRows ==
    /\ pc = "exited" /\ Loaded /\ NoAlias(sheet) /\ Len(sheet.data) = 0
    /\ Printed(MissingColumnMessage) /\ csv = Unset

\* The texts that are a timestamp of the format: renderings of existing
\* calendar days, with or without zero padding.
WellFormedTimes ==
    { Str(FmtTime(f[1], f[2], f[3], f[4], f[5], f[6])) :
        f \in { g \in (Years \X Months \X Days \X (Hours \cup {9}) \X (Minutes \cup {0, 5}) \X Offsets) :
                    g[3] <= DaysInMonth(g[1], g[2]) } }
    \cup { Str(FmtTimeUnpadded(2024, 6, 1, 9, 5, 0)) }

\* The row labels, in sheet order, of the rows that have a time, a Tweet and a
\* well-formed time.
Survivors ==
    SelectSeq(sheet.index,
              LAMBDA i : /\ RawRow(i)[RawName(sheet, "time")].k # "nan"
                         /\ RawRow(i)[RawName(sheet, "Tweet")].k # "nan"
                         /\ RawRow(i)[RawName(sheet, "time")] \in WellFormedTimes)

Dropped ==
    { i \in Range(sheet.index) :
        \/ RawRow(i)[RawName(sheet, "time")].k = "nan"
        \/ RawRow(i)[RawName(sheet, "Tweet")].k = "nan"
        \/ RawRow(i)[RawName(sheet, "time")] \notin WellFormedTimes }

\* C2: the rows of the returned table are the sheet's rows that have a time, a
\* Tweet and a time of the format, in sheet order, each once, with the time and
\* the Tweet they had; the row count falls by the number of dropped rows.
C2_RowsAreSurvivors ==
    Returned =>
        /\ final_df.index = Survivors
        /\ Len(final_df.data) = Len(final_df.index)
        /\ \A j \in 1..Len(final_df.data) :
              /\ final_df.data[j]["time"] = RawRow(final_df.index[j])[RawName(sheet, "time")]
              /\ final_df.data[j]["Tweet"] = RawRow(final_df.index[j])[RawName(sheet, "Tweet")]
              /\ notna(final_df.data[j]["time_utc"])
        /\ Len(final_df.data) <= Len(sheet.data)
        /\ Len(sheet.data) - Len(final_df.data) = Cardinality(Dropped)

\* C2 witness: of two rows the first had an unparseable time and was dropped,
\* the second was kept.
C2_Witness ==
    /\ Returned
    /\ Len(sheet.data) = 2
    /\ notna(RawRow(0)[RawName(sheet, "time")])
    /\ notna(RawRow(0)[RawName(sheet, "Tweet")])
    /\ final_df.index = <<1>>

\* C2 witness: two rows kept, in sheet order.
C2_WitnessOrder ==
    /\ Returned
    /\ final_df.index = <<0, 1>>
    /\ final_df.data[1]["time"] # final_df.data[2]["time"]

\* The day after the calendar day <<y, m, d>>, by carrying into month and year.
NextDay(y, m, d) ==
    IF d < DaysInMonth(y, m) THEN <<y, m, d + 1>>
    ELSE IF m < 12 THEN <<y, m + 1, 1>>
    ELSE <<y + 1, 1, 1>>

TimeGrid == Years \X Months \X Days \X Hours \X Minutes \X Offsets

\* The wall clock 5 hours 30 minutes after h:mi on <<y, m, d>>, by carrying.
Shifted(y, m, d, h, mi) ==
    LET total == h * 60 + mi + 5 * 60 + 30
        late  == h > 18 \/ (h = 18 /\ mi >= 30)
        day   == IF late THEN NextDay(y, m, d) ELSE <<y, m, d>>
    IN  [year |-> day[1], month |-> day[2], day |-> day[3],
         hour |-> IF late THEN (total - 24 * 60) \div 60 ELSE total \div 60,
         minute |-> total % 60]

\* C3: for every returned row, time_ist is time_utc moved 5 h 30 min later
\* with the carry through hour, day, month and year, and date_ist, hour_ist
\* and day_of_month are its date, hour and day: the date is the next calendar
\* day exactly when the time of day of time_utc is 18:30 or later.
C3_IstShift ==
    pc = "returned" /\ final_df.kind = "DataFrame" =>
        \A j \in 1..Len(final_df.data) :
            LET r   == final_df.data[j]
                raw == RawRow(final_df.index[j])[RawName(sheet, "time")]
            IN  /\ r["time_ist"].n = r["time_utc"].n + 5 * 60 + 30
                /\ r["time_ist"].tz = r["time_utc"].tz
                /\ r["hour_ist"].n \in 0..23
                /\ r["day_of_month"].n \in 1..31
                /\ \A f \in TimeGrid :
                      raw = Str(FmtTime(f[1], f[2], f[3], f[4], f[5], f[6])) =>
                          LET e == Shifted(f[1], f[2], f[3], f[4], f[5])
                          IN  /\ CivilFromDays(r["date_ist"].n) =
                                    [year |-> e.year, month |-> e.month, day |-> e.day]
                              /\ r["date_ist"].n = DaysFromCivil(e.year, e.month, e.day)
                              /\ r["hour_ist"].n = e.hour
                              /\ r["day_of_month"].n = e.day
                              /\ dt_minute(r["time_ist"]) = e.minute
                              /\ (r["date_ist"].n = DaysFromCivil(f[1], f[2], f[3]) + 1)
                                     <=> (f[4] * 60 + f[5] >= 18 * 60 + 30)
                              /\ (r["date_ist"].n = DaysFromCivil(f[1], f[2], f[3]))
                                     <=> (f[4] * 60 + f[5] < 18 * 60 + 30)

\* C3 witness: 2024-12-31 23:45 +0000 became 2025-01-01, hour 5.
C3_Witness ==
    /\ Returned
    /\ Len(final_df.data) = 1
    /\ final_df.data[1]["time"] = Str(FmtTime(2024, 12, 31, 23, 45, 0))
    /\ CivilFromDays(final_df.data[1]["date_ist"].n) = [year |-> 2025, month |-> 1, day |-> 1]
    /\ final_df.data[1]["hour_ist"].n = 5
    /\ final_df.data[1]["day_of_month"].n = 1

\* C4: for every returned row, time_utc is the instant in UTC (zone offset 0)
\* and hour_ist is the hour of the Indian wall clock of that instant.
C4_UtcNormalized ==
    Returned =>
        \A j \in 1..Len(final_df.data) :
            LET r == final_df.data[j]
            IN  /\ r["time_utc"].tz = 0
                /\ r["hour_ist"].n = ((r["time_utc"].n + 5 * 60 + 30) % (24 * 60)) \div 60

\* The signal cell of a sheet row is present and a number above 0.
Positive(table, row, signal) ==
    /\ signal \in Range(table.columns)
    /\ row[signal].k = "int"
    /\ row[signal].n > 0

\* C5: the category of every returned row is Media if the sheet row has media
\* views above 0, else Links if it has url clicks above 0, else Hashtags if it
\* has hashtag clicks above 0, else Other; an absent signal counts as 0.
C5_Category ==
    Returned =>
        \A j \in 1..Len(final_df.data) :
            LET raw == RawRow(final_df.index[j])
                cat == final_df.data[j]["TweetCategory"].l
            IN  /\ cat \in {"Media", "Links", "Hashtags", "Other"}
                /\ cat = "Media" <=> Positive(sheet, raw, "media views")
                /\ cat = "Links" <=>
                      /\ ~Positive(sheet, raw, "media views")
                      /\ Positive(sheet, raw, "url clicks")
                /\ cat = "Hashtags" <=>
                      /\ ~Positive(sheet, raw, "media views")
                      /\ ~Positive(sheet, raw, "url clicks")
                      /\ Positive(sheet, raw, "hashtag clicks")
                /\ cat = "Other" <=>
                      \A s \in {"media views", "url clicks", "hashtag clicks"} :
                          ~Positive(sheet, raw, s)

\* C5 witness: a row with media views 5 and url clicks 3 is Media.
C5_Witness ==
    /\ Returned
    /\ Len(final_df.data) = 1
    /\ {"media views", "url clicks"} \subseteq Range(sheet.columns)
    /\ final_df.data[1]["media views"] = Num(5)
    /\ final_df.data[1]["url clicks"] = Num(3)
    /\ final_df.data[1]["TweetCategory"].l = "Media"

\* C5 witness: a row of a sheet without any signal column is Other.
C5_WitnessAbsent ==
    /\ Returned
    /\ Len(final_df.data) = 1
    /\ {"media views", "url clicks", "hashtag clicks"} \cap Range(sheet.columns) = {}
    /\ final_df.data[1]["TweetCategory"].l = "Other"

\* The sheet with header old replaced by header new, cells unchanged.
WithHeader(table, old, new) == rename(table, old, new, old, new)

\* The sheets got from the sheet by writing Time for time, TweetText for
\* Tweet, or both, where the sheet has the first name and not the second.
AliasVariants(table) ==
    LET t1 == "time" \in Range(table.columns) /\ "Time" \notin Range(table.columns)
        t2 == "Tweet" \in Range(table.columns) /\ "TweetText" \notin Range(table.columns)
    IN  (IF t1 THEN {WithHeader(table, "time", "Time")} ELSE {})
        \cup (IF t2 THEN {WithHeader(table, "Tweet", "TweetText")} ELSE {})
        \cup (IF t1 /\ t2
              THEN {WithHeader(WithHeader(table, "time", "Time"), "Tweet", "TweetText")}
              ELSE {})

\* C6: a sheet headed Time and/or TweetText gives the result the same sheet
\* headed time and Tweet gives; with both names of a pair present the first
\* (time, Tweet) is the required field and the second stays an ordinary column.
C6_AliasResolution ==
    pc = "returned" /\ Loaded =>
        /\ \A v \in AliasVariants(sheet) : clean_twitter_data(v) = final_df
        /\ final_df.kind = "DataFrame" /\ {"time", "Time"} \subseteq Range(sheet.columns) =>
              /\ time_col = "time"
              /\ \A j \in 1..Len(final_df.data) :
                    /\ final_df.data[j]["time"] = RawRow(final_df.index[j])["time"]
                    /\ final_df.data[j]["Time"] = RawRow(final_df.index[j])["Time"]
                    /\ final_df.data[j]["time_utc"] = to_datetime(RawRow(final_df.index[j])["time"])
        /\ final_df.kind = "DataFrame" /\ {"Tweet", "TweetText"} \subseteq Range(sheet.columns) =>
              /\ tweet_col = "Tweet"
              /\ \A j \in 1..Len(final_df.data) :
                    /\ final_df.data[j]["Tweet"] = RawRow(final_df.index[j])["Tweet"]
                    /\ final_df.data[j]["TweetText"] = RawRow(final_df.index[j])["TweetText"]

\* C6 witness: a sheet headed time and Tweet returned rows, and so does the
\* same sheet headed Time and TweetText.
C6_Witness ==
    /\ Returned
    /\ Len(final_df.data) = 2
    /\ Cardinality(AliasVariants(sheet)) = 3
    /\ \A v \in AliasVariants(sheet) : clean_twitter_data(v) = final_df

\* C6 witness: a sheet with all four names returned rows.
C6_WitnessBoth ==
    /\ Returned
    /\ Len(final_df.data) = 2
    /\ {"time", "Time", "Tweet", "TweetText"} \subseteq Range(sheet.columns)
    /\ final_df.data[1]["Time"] # final_df.data[1]["time"]

\* C7: once the required columns are found, the copy of id does not fail: a
\* table is returned, and user_profile_id is the row's id, or missing in every
\* row when the sheet has no id column.
C7_IdProjection ==
    /\ ~Printed(KeyError)
    /\ pc = "exited" /\ Loaded /\ ~NoAlias(sheet) /\ ~Printed(AttributeError) =>
          /\ final_df.kind = "DataFrame"
          /\ \A j \in 1..Len(final_df.data) :
                final_df.data[j]["user_profile_id"] =
                    IF "id" \in Range(sheet.columns)
                    THEN RawRow(final_df.index[j])["id"]
                    ELSE NaN

\* The headers of the sheet with the two required fields under their
\* canonical names.
CanonicalHeaders ==
    [i \in 1..Len(sheet.columns) |->
        IF sheet.columns[i] = RawName(sheet, "time") THEN "time"
        ELSE IF sheet.columns[i] = RawName(sheet, "Tweet") THEN "Tweet"
        ELSE sheet.columns[i]]

\* C8: the columns of the returned table are the sheet's columns followed by
\* the ten derived columns, each once.
C8_Columns ==
    Returned /\ Range(sheet.columns) \cap Range(DerivedColumns) = {} =>
        /\ final_df.columns = CanonicalHeaders \o DerivedColumns
        /\ \A i, j \in 1..Len(final_df.columns) :
              final_df.columns[i] = final_df.columns[j] => i = j

\* C9: every cell of a sheet row that is returned is in the returned row,
\* under its header (time and Tweet for the two required fields).
C9_OnlyAdds ==
    Returned =>
        \A j \in 1..Len(final_df.data) :
            \A c \in Range(sheet.columns) :
                LET name == IF c = RawName(sheet, "time") THEN "time"
                            ELSE IF c = RawName(sheet, "Tweet") THEN "Tweet"
                            ELSE c
                IN  final_df.data[j][name] = RawRow(final_df.index[j])[c]

\* C10 as stated: the exit status is success exactly when the table was
\* produced and written, and the file is written in no failure case.
C10_ExitStatusReflectsOutput ==
    pc = "exited" =>
        /\ exit_status = <<0>> <=> (final_df.kind = "DataFrame" /\ csv = final_df)
        /\ ~Loaded \/ NoAlias(sheet) => csv = Unset /\ exit_status # <<0>>

\* C10 amended: the file is written only after the function returned, and
\* holds the table it returned; it is written whenever a table is returned;
\* when the sheet cannot be read or a required column is missing, a diagnostic
\* is printed, nothing is written and the exit status is 0 all the same.
C10_WriterOnlyAfterTable ==
    /\ csv # Unset =>
          pc = "exited" /\ final_df.kind = "DataFrame" /\ csv = final_df /\ Loaded
    /\ pc = "exited" /\ final_df.kind = "DataFrame" =>
          csv = final_df /\ exit_status = <<0>> /\ Printed(SuccessMessage)
    /\ pc = "exited" /\ (~Loaded \/ NoAlias(sheet)) =>
          /\ csv = Unset
          /\ final_df = None
          /\ exit_status = <<0>>
          /\ ~Printed(SuccessMessage)
          /\ Printed(NotFoundMessage) \/ Printed(UnreadableMessage) \/ Printed(MissingColumnMessage)
    /\ pc # "exited" => exit_status = <<>>

\* C10 witness: the file was not found, nothing was written, exit status 0.
C10_Witness ==
    /\ pc = "exited"
    /\ sheet.kind = "FileNotFoundError"
    /\ Printed(NotFoundMessage)
    /\ csv = Unset
    /\ exit_status = <<0>>

\* C10 witness: a table was returned and written.
C10_WitnessWritten ==
    /\ pc = "exited" /\ csv = final_df /\ final_df.kind = "DataFrame"
    /\ Len(csv.data) = 2
    /\ exit_status = <<0>>

====
